---- MODULE Spec2Model ----
(***************************************************************************)
(* Real-time chat server: the socket handler (ChatSocket), the message     *)
(* controller (REST) and the persisted store they share.                   *)
(*                                                                         *)
(* Every handler is an async function.  Each awaited store call is one     *)
(* atomic step at the store, and handlers of different events interleave   *)
(* between those steps.  The synchronous code that follows the last await  *)
(* of a handler (its emits) is the handler's final step.                   *)
(***************************************************************************)
EXTENDS Integers, FiniteSets, Sequences, Bags, TLC

(* ------------------------------ bounds -------------------------------- *)
\* message handler invocations (socket events and REST requests) in one run;
\* all of them may be in flight at once
MaxOps == 2
\* advances of the wall clock that new Date() observes
MaxClock == 1
\* conversations the conversation controller may have created
MaxConvs == 1

(* ------------------------------ universe ------------------------------ *)
Users == {"A", "B", "C"}
Convs == {"c1", "c2"}
Sockets == {"s1", "s2", "s3"}

\* socket.data.userId, bound by the handshake middleware: B has two devices
SocketUser == [s \in Sockets |-> CASE s = "s1" -> "A" [] OTHER -> "B"]

NoSocket == "none"
\* what a handshake may carry in socket.handshake.headers.cookie
Credentials == {"noCookies", "noToken", "badToken", "valid"}
\* no handshake yet
NoCookie == "none"

\* no request answered yet by the conversation controller
NoResponse == [status |-> 0, message |-> ""]
NoMessage == 0
\* ids a client may name: every message a run can create
MsgIdSpace == 1..MaxOps

\* the room a socket joins for a conversation: `conversation:${conversationId}`
ConvRoom(c) == <<"conversation", c>>
\* the room the REST controller emits to: the bare conversation id
BareRoom(c) == <<"bare", c>>

VARIABLES
  users,           \* UserModel: user -> [status]
  conversations,   \* Conversation: conv -> [participants, lastMessage, unreadCount, lastReadMessage]
  messages,        \* Message: sequence, index = _id -> [conversation, sender, readBy,
                   \* createdAt, reactions, isDeleted]
  now,             \* the wall clock as last read by new Date()
  connectedUsers,  \* ChatSocket.connectedUsers: userId -> socketId (or NoSocket)
  live,            \* sockets whose transport connection is open
  connPc,          \* position of handleConnection per socket
  discPc,          \* position of handleDisconnect per socket
  connSnap,        \* handleConnection's local onlineUsers per socket
  cookie,          \* the credential each socket presented at its handshake
  rooms,           \* socket.io rooms joined per socket
  inbox,           \* events delivered to each socket (a bag)
  tasks,           \* in-flight message handlers with their locals (a bag)
  started,         \* message handler invocations so far
  Conversation,    \* Conversation as the conversation controller writes it:
                   \* sequence of [type, name, participants, admins, memberCount]
  res              \* the conversation controller's last response

storeVars == <<users, conversations, messages, now>>
regVars == <<connectedUsers, live, connPc, discPc, connSnap, cookie>>
convVars == <<Conversation, res>>
vars == <<users, conversations, messages, now, connectedUsers, live, connPc,
          discPc, connSnap, cookie, rooms, inbox, tasks, started, Conversation, res>>

(* ------------------------------ events -------------------------------- *)
Ev(type, user, conv, msgs, info) ==
  [type |-> type, user |-> user, conv |-> conv, msgs |-> msgs, info |-> info]

\* deliver ev to every socket of targets
EmitTo(box, targets, ev) ==
  [s \in Sockets |-> IF s \in targets THEN box[s] (+) SetToBag({ev}) ELSE box[s]]

\* io.to(room): every open socket that joined the room
RoomMembers(room) == {s \in live : room \in rooms[s]}

\* mutant: a socket id addresses its socket whether or not it is still open
SocketRoomAny(sid) == {s \in Sockets : s = sid}

\* io.to(socketId): a socket is alone in the room named by its id
SocketRoom(sid) == {s \in live : s = sid}

Count(s, ev) == CopiesIn(ev, inbox[s])

(* ------------------------------ store --------------------------------- *)
Participants(c) == conversations[c].participants
Readers(m) == {r.user : r \in messages[m].readBy}
MessageIds == 1..Len(messages)

\* a handler's locals: socket, userId, conversationId, message id(s), and the
\* conversation document it holds (snap); req is the messageIds of a batch
\* request; seq orders the events of one socket whose handlers are in flight
\* together: a later event has the greater seq
SeqsOf(sock) == {t.seq : t \in {r \in BagToSet(tasks) : r.sock = sock}}
NextSeq(sock) ==
  IF sock = NoSocket \/ SeqsOf(sock) = {} THEN 0
  ELSE 1 + CHOOSE n \in SeqsOf(sock) : \A k \in SeqsOf(sock) : k <= n
NoSnap == [participants |-> {}, lastMessage |-> NoMessage, unreadCount |-> <<>>]
Task(kind, pc, sock, user, conv, msg, msgs) ==
  [kind |-> kind, pc |-> pc, sock |-> sock, user |-> user, conv |-> conv,
   msg |-> msg, msgs |-> msgs, snap |-> NoSnap, seq |-> NextSeq(sock), req |-> {}]
ConvDoc(c) == [participants |-> conversations[c].participants,
               lastMessage |-> conversations[c].lastMessage,
               unreadCount |-> conversations[c].unreadCount]

\* participants of the two conversations as created through createConversation
InitParticipants == [c \in Convs |-> IF c = "c1" THEN {"A", "B", "C"} ELSE {"A", "C"}]

\* a conversation as created: one unreadCount entry (0) per participant
NewConversation(ps) ==
  [participants |-> ps,
   lastMessage |-> NoMessage,
   unreadCount |-> [u \in ps |-> 0],
   lastReadMessage |-> [u \in ps |-> NoMessage]]

\* the server right after construction: nobody connected
Init ==
  /\ users = [u \in Users |-> [status |-> "offline"]]
  /\ conversations = [c \in Convs |-> NewConversation(InitParticipants[c])]
  /\ messages = <<>>
  /\ now = 0
  /\ connectedUsers = [u \in Users |-> NoSocket]
  /\ live = {}
  /\ connPc = [s \in Sockets |-> "fresh"]
  /\ cookie = [s \in Sockets |-> NoCookie]
  /\ Conversation = <<>>
  /\ res = NoResponse
  /\ discPc = [s \in Sockets |-> "none"]
  /\ connSnap = [s \in Sockets |-> {}]
  /\ rooms = [s \in Sockets |-> {}]
  /\ inbox = [s \in Sockets |-> EmptyBag]
  /\ tasks = EmptyBag
  /\ started = 0

(* ------------------------------ clock --------------------------------- *)
\* new Date(): the clock has not moved since it was last read, or it has
Clock ==
  /\ now' \in {now, now + 1}
  /\ now' <= MaxClock

(* --------------------- connection registry / presence ------------------ *)
\* mutant: the middleware lets every handshake through
VerifiedAlways(cred) == TRUE

\* io.use middleware: cookies present, a token= cookie among them, and
\* verifySocketToken(token) resolves
Verified(cred) == cred = "valid"

\* io.use, then io.on("connection"): a verified socket connects and
\* handleConnection starts; any other is refused with next(new Error(
\* "Authentication error")).  A socket id is never reused.
Handshake(s, cred) ==
  /\ connPc[s] = "fresh"
  /\ cookie' = [cookie EXCEPT ![s] = cred]
  /\ IF Verified(cred)
       THEN /\ live' = live \cup {s}
            /\ connPc' = [connPc EXCEPT ![s] = "persist"]
       ELSE /\ connPc' = [connPc EXCEPT ![s] = "rejected"]
            /\ UNCHANGED live
  /\ UNCHANGED <<storeVars, connectedUsers, discPc, connSnap, rooms, inbox, tasks, started, convVars>>

\* a client with a valid token connects
Connect(s) == Handshake(s, "valid")

\* a client without cookies, without a token cookie or with a bad token
RejectHandshake(s) == \E cred \in Credentials \ {"valid"} : Handshake(s, cred)

\* await UserModel.findByIdAndUpdate(userId, {status: "online", lastSeen});
\* lastSeen is written with it and read nowhere
ConnPersistOnline(s) ==
  /\ connPc[s] = "persist"
  /\ users' = [users EXCEPT ![SocketUser[s]].status = "online"]
  /\ connPc' = [connPc EXCEPT ![s] = "register"]
  /\ UNCHANGED <<conversations, messages, now, connectedUsers, live, discPc,
                 connSnap, rooms, inbox, tasks, started, cookie, convVars>>

\* this.connectedUsers.set(userId, {userId, socketId: socket.id})
RegistrySet(reg, u, s) == [reg EXCEPT ![u] = s]

\* UserModel.find({status: "online"})
OnlineUsers == {u \in Users : users[u].status = "online"}

\* connectedUsers.set(...); await this.getOnlineUsersFromDB()
ConnRegister(s) ==
  /\ connPc[s] = "register"
  /\ connectedUsers' = RegistrySet(connectedUsers, SocketUser[s], s)
  /\ connSnap' = [connSnap EXCEPT ![s] = OnlineUsers]
  /\ connPc' = [connPc EXCEPT ![s] = "announce"]
  /\ UNCHANGED <<storeVars, live, discPc, rooms, inbox, tasks, started, cookie, convVars>>

StatusEv(u, status) == Ev("user:status", u, "", {}, status)
SnapshotEv(online) == Ev("users:online", "", "", {}, online)

\* socket.emit("users:online", ...); socket.broadcast.emit("user:status", online)
ConnAnnounce(s) ==
  /\ connPc[s] = "announce"
  /\ inbox' = EmitTo(EmitTo(inbox, {s} \cap live, SnapshotEv(connSnap[s])),
                     live \ {s}, StatusEv(SocketUser[s], "online"))
  /\ connPc' = [connPc EXCEPT ![s] = "done"]
  /\ UNCHANGED <<storeVars, connectedUsers, live, discPc, connSnap, rooms, tasks, started, cookie, convVars>>

\* socket.on("disconnect"): the transport closes (the socket leaves its
\* rooms) and handleDisconnect starts
Disconnect(s) ==
  /\ s \in live
  /\ live' = live \ {s}
  /\ rooms' = [rooms EXCEPT ![s] = {}]
  /\ discPc' = [discPc EXCEPT ![s] = "persist"]
  /\ UNCHANGED <<storeVars, connectedUsers, connPc, connSnap, inbox, tasks, started, cookie, convVars>>

\* await UserModel.findByIdAndUpdate(userId, {status: "offline", lastSeen})
DiscPersistOffline(s) ==
  /\ discPc[s] = "persist"
  /\ users' = [users EXCEPT ![SocketUser[s]].status = "offline"]
  /\ discPc' = [discPc EXCEPT ![s] = "unregister"]
  /\ UNCHANGED <<conversations, messages, now, connectedUsers, live, connPc,
                 connSnap, rooms, inbox, tasks, started, cookie, convVars>>

\* this.connectedUsers.delete(userId)
RegistryDelete(reg, u, s) == [reg EXCEPT ![u] = NoSocket]

\* connectedUsers.delete(userId); this.io.emit("user:status", offline)
DiscUnregister(s) ==
  /\ discPc[s] = "unregister"
  /\ connectedUsers' = RegistryDelete(connectedUsers, SocketUser[s], s)
  /\ inbox' = EmitTo(inbox, live, StatusEv(SocketUser[s], "offline"))
  /\ discPc' = [discPc EXCEPT ![s] = "done"]
  /\ UNCHANGED <<storeVars, live, connPc, connSnap, rooms, tasks, started, cookie, convVars>>

(* ------------------------------ rooms ---------------------------------- *)
\* socket.join(room)
JoinRoom(joined, room) == joined \cup {room}

\* mutant: leaving one room leaves every room
LeaveEveryRoom(joined, room) == {}

\* socket.leave(room)
LeaveRoom(joined, room) == joined \ {room}

\* socket.on("join:conversation"): handleJoinConversation, for any id
JoinConversation(s, c) ==
  /\ s \in live
  /\ rooms' = [rooms EXCEPT ![s] = JoinRoom(@, ConvRoom(c))]
  /\ UNCHANGED <<storeVars, regVars, convVars, inbox, tasks, started>>

\* socket.on("leave:conversation"): handleLeaveConversation
LeaveConversation(s, c) ==
  /\ s \in live
  /\ rooms' = [rooms EXCEPT ![s] = LeaveRoom(@, ConvRoom(c))]
  /\ UNCHANGED <<storeVars, regVars, convVars, inbox, tasks, started>>

RoomsNext ==
  \E s \in Sockets, c \in Convs : JoinConversation(s, c) \/ LeaveConversation(s, c)

(* ------------------------------ typing --------------------------------- *)
\* mutant: the typing event goes to the conversation's room
TypingTargetsRoom(c) == {s \in live : ConvRoom(c) \in rooms[s]}

\* this.io.emit(...): every connected socket
TypingTargets(c) == live

TypingEv(type, s, c) == Ev(type, SocketUser[s], c, {}, "")

\* socket.on("typing:start") / socket.on("typing:stop"): synchronous handlers
Typing(type, s, c) ==
  /\ s \in live
  /\ started < MaxOps
  /\ started' = started + 1
  /\ inbox' = EmitTo(inbox, TypingTargets(c), TypingEv(type, s, c))
  /\ UNCHANGED <<storeVars, regVars, convVars, rooms, tasks>>

TypingStart(s, c) == Typing("typing:start", s, c)
TypingStop(s, c) == Typing("typing:stop", s, c)

TypingNext ==
  \E s \in Sockets, c \in Convs : TypingStart(s, c) \/ TypingStop(s, c)

(* ------------------------- handler bookkeeping ------------------------ *)
Running == BagToSet(tasks)
At(t, kind, pc) == t.kind = kind /\ t.pc = pc
\* a handler is invoked
Start(t) ==
  /\ started < MaxOps
  /\ tasks' = tasks (+) SetToBag({t})
  /\ started' = started + 1
\* handler t moves on as t2
Step(t, t2) == tasks' = (tasks (-) SetToBag({t})) (+) SetToBag({t2})
Goto(t, pc) == Step(t, [t EXCEPT !.pc = pc])
\* handler t returns
Finish(t) == tasks' = tasks (-) SetToBag({t})

\* $addToSet: {readBy: {user, readAt: new Date()}}: added unless an equal
\* element (same user and same readAt) is already there
AddToSetReadBy(readBy, u, at) == readBy \cup {[user |-> u, readAt |-> at]}

\* new Message({conversation, sender, ..., readBy: []})
NewMessage(c, u, at) ==
  [conversation |-> c, sender |-> u, readBy |-> {}, createdAt |-> at,
   reactions |-> <<>>, isDeleted |-> FALSE]

(* --------------------- ChatSocket.handleSendMessage -------------------- *)
\* socket.on("message:send") on an open socket
RecvSend(s, c) ==
  /\ s \in live
  /\ Start(Task("sendRT", "save", s, SocketUser[s], c, NoMessage, {}))
  /\ UNCHANGED <<storeVars, regVars, convVars, rooms, inbox>>

\* a conversation id that is well formed and matches no conversation
UnknownConv == "c0"

\* socket.on("message:send") naming a conversation that does not exist
RecvSendUnknown(s) ==
  /\ s \in live
  /\ Start(Task("sendRT", "save", s, SocketUser[s], UnknownConv, NoMessage, {}))
  /\ UNCHANGED <<storeVars, regVars, convVars, rooms, inbox>>

\* await message.save()
SendSave(t) ==
  /\ At(t, "sendRT", "save")
  /\ Clock
  /\ messages' = Append(messages, NewMessage(t.conv, t.user, now'))
  /\ Step(t, [t EXCEPT !.pc = "addSender", !.msg = Len(messages) + 1])
  /\ UNCHANGED <<users, conversations, regVars, convVars, rooms, inbox, started>>

\* await Message.findByIdAndUpdate(message._id, {$addToSet: {readBy: sender}})
SendAddSender(t) ==
  /\ At(t, "sendRT", "addSender")
  /\ Clock
  /\ messages' = [messages EXCEPT ![t.msg].readBy = AddToSetReadBy(@, t.user, now')]
  /\ Goto(t, "updateConv")
  /\ UNCHANGED <<users, conversations, regVars, convVars, rooms, inbox, started>>

\* mutant: $set to 1 instead of $inc by 1
IncUnreadSetsOne(unread, sender) ==
  [u \in DOMAIN unread |-> IF u # sender THEN 1 ELSE unread[u]]

\* $inc: {"unreadCount.$[elem].count": 1},
\* arrayFilters: [{"elem.user": {$ne: userId}}]
IncUnread(unread, sender) ==
  [u \in DOMAIN unread |-> IF u # sender THEN unread[u] + 1 ELSE unread[u]]

\* await Conversation.findByIdAndUpdate(conversationId,
\*   {lastMessage: message._id, $inc: ...}, {arrayFilters, new: true})
\* (null, and nothing written, when no conversation has that id)
SendUpdateConv(t) ==
  /\ At(t, "sendRT", "updateConv")
  /\ IF t.conv \in Convs
       THEN LET doc == [conversations[t.conv] EXCEPT
                         !.lastMessage = t.msg,
                         !.unreadCount = IncUnread(@, t.user)]
            IN /\ conversations' = [conversations EXCEPT ![t.conv] = doc]
               /\ Step(t, [t EXCEPT !.pc = "fanout",
                                    !.snap = [participants |-> doc.participants,
                                              lastMessage |-> doc.lastMessage,
                                              unreadCount |-> doc.unreadCount]])
       ELSE /\ UNCHANGED conversations
            /\ Goto(t, "fanout")
  /\ UNCHANGED <<users, messages, now, regVars, convVars, rooms, inbox, started>>

\* the sockets reached by the participants.forEach loop:
\* this.connectedUsers.get(participantId), then io.to(participantSocket.socketId)
FanoutTargets(snap, sender) ==
  UNION {SocketRoom(connectedUsers[p]) : p \in snap.participants \ {sender}}

MsgNew(t) == Ev("message:new", t.user, t.conv, {t.msg}, "")
ConvUpdated(t) == Ev("conversation:updated", "", t.conv, {t.snap.lastMessage}, t.snap.unreadCount)

\* the emits after the last await: to the participants' registered sockets,
\* then socket.emit to the sending socket
SendFanout(t) ==
  /\ At(t, "sendRT", "fanout")
  /\ LET toOthers == FanoutTargets(t.snap, t.user)
         toSender == {t.sock} \cap live
         box1 == EmitTo(EmitTo(inbox, toOthers, MsgNew(t)), toOthers, ConvUpdated(t))
     IN inbox' = EmitTo(EmitTo(box1, toSender, MsgNew(t)), toSender, ConvUpdated(t))
  /\ Finish(t)
  /\ UNCHANGED <<storeVars, regVars, convVars, rooms, started>>

\* mutant: the catch block answers with the message instead of the error
SendErrorAsMsgNew(t) == MsgNew(t)

\* socket.emit("error", {message: "Failed to send message"})
SendError(t) == Ev("error", "", "", {}, "Failed to send message")

\* mutant: the error goes to the conversation's room
ErrorTargetsRoom(t) == RoomMembers(ConvRoom(t.conv))

\* socket.emit: the handler's own socket, if it is still open
ErrorTargets(t) == {t.sock} \cap live

\* one of the awaited store calls of handleSendMessage rejects (the call at
\* t.pc): control passes to the catch block, which answers the sending socket
SendFail(t) ==
  /\ t.kind = "sendRT" /\ t.pc \in {"save", "addSender", "updateConv"}
  /\ inbox' = EmitTo(inbox, ErrorTargets(t), SendError(t))
  /\ Finish(t)
  /\ UNCHANGED <<storeVars, regVars, convVars, rooms, started>>

(* -------------------- MessageController.sendMessage -------------------- *)
\* POST /api/messages by an authenticated user
RecvRestSend(u, c) ==
  /\ Start(Task("sendREST", "findConv", NoSocket, u, c, NoMessage, {}))
  /\ UNCHANGED <<storeVars, regVars, convVars, rooms, inbox>>

\* await Conversation.findOne({_id, "participants.user": senderId}); 404 if none
RestSendFindConv(t) ==
  /\ At(t, "sendREST", "findConv")
  /\ IF t.user \in Participants(t.conv)
       THEN Step(t, [t EXCEPT !.pc = "save", !.snap = ConvDoc(t.conv)])
       ELSE Finish(t)
  /\ UNCHANGED <<storeVars, regVars, convVars, rooms, inbox, started>>

\* await message.save()
RestSendSave(t) ==
  /\ At(t, "sendREST", "save")
  /\ Clock
  /\ messages' = Append(messages, NewMessage(t.conv, t.user, now'))
  /\ Step(t, [t EXCEPT !.pc = "convSave", !.msg = Len(messages) + 1])
  /\ UNCHANGED <<users, conversations, regVars, convVars, rooms, inbox, started>>

\* conversation.lastMessage = message._id; await conversation.save()
\* (save writes the modified path only)
RestSendConvSave(t) ==
  /\ At(t, "sendREST", "convSave")
  /\ conversations' = [conversations EXCEPT ![t.conv].lastMessage = t.msg]
  /\ Goto(t, "emit")
  /\ UNCHANGED <<users, messages, now, regVars, convVars, rooms, inbox, started>>

\* io.to(conversationId).emit("new_message", message)
RestSendEmit(t) ==
  /\ At(t, "sendREST", "emit")
  /\ inbox' = EmitTo(inbox, RoomMembers(BareRoom(t.conv)),
                     Ev("new_message", t.user, t.conv, {t.msg}, ""))
  /\ Finish(t)
  /\ UNCHANGED <<storeVars, regVars, convVars, rooms, started>>

(* --------------------- ChatSocket.handleMessageRead -------------------- *)
\* socket.on("message:read") on an open socket
RecvRead(s, c, m) ==
  /\ s \in live /\ m \in MessageIds
  /\ Start(Task("readRT", "find", s, SocketUser[s], c, m, {}))
  /\ UNCHANGED <<storeVars, regVars, convVars, rooms, inbox>>

\* mutant: the membership check compares against the sender instead of the caller
AlreadyReadBySender(m, u) == messages[m].sender \notin Readers(m)

\* message.readBy.some(r => r.user.toString() === userId)
AlreadyRead(m, u) == u \in Readers(m)

\* socket.on("message:read") naming an id that no message has
RecvReadUnknown(s, c, m) ==
  /\ s \in live /\ m \in MsgIdSpace \ MessageIds
  /\ Start(Task("readRT", "find", s, SocketUser[s], c, m, {}))
  /\ UNCHANGED <<storeVars, regVars, convVars, rooms, inbox>>

\* mutant: the lookup miss is answered with the read broadcast
ReadNotFoundAsRead(t) == Ev("message:read", t.user, t.conv, {t.msg}, "")

\* socket.emit("error", {message: "Message not found"})
ReadNotFound(t) == Ev("error", "", "", {}, "Message not found")

\* await Message.findById(messageId); if (!existingMessage) return error;
\* if (alreadyRead) return
ReadFind(t) ==
  /\ At(t, "readRT", "find")
  /\ IF t.msg \notin MessageIds
       THEN /\ inbox' = EmitTo(inbox, ErrorTargets(t), ReadNotFound(t))
            /\ Finish(t)
       ELSE /\ IF AlreadyRead(t.msg, t.user) THEN Finish(t) ELSE Goto(t, "addToSet")
            /\ UNCHANGED inbox
  /\ UNCHANGED <<storeVars, regVars, convVars, rooms, started>>

\* await Message.findByIdAndUpdate(messageId, {$addToSet: {readBy: {user, readAt}}})
ReadAddToSet(t) ==
  /\ At(t, "readRT", "addToSet")
  /\ Clock
  /\ messages' = [messages EXCEPT ![t.msg].readBy = AddToSetReadBy(@, t.user, now')]
  /\ Goto(t, "resetUnread")
  /\ UNCHANGED <<users, conversations, regVars, convVars, rooms, inbox, started>>

\* mutant: the reset without its user filter
ResetUnreadAll(unread, u) == [v \in DOMAIN unread |-> 0]

\* $set: {"unreadCount.$[elem].count": 0}, arrayFilters: [{"elem.user": userId}]
ResetUnread(unread, u) == [v \in DOMAIN unread |-> IF v = u THEN 0 ELSE unread[v]]

\* await Conversation.findByIdAndUpdate(conversationId, {$set: ...})
ReadResetUnread(t) ==
  /\ At(t, "readRT", "resetUnread")
  /\ conversations' = [conversations EXCEPT ![t.conv].unreadCount = ResetUnread(@, t.user)]
  /\ Goto(t, "emit")
  /\ UNCHANGED <<users, messages, now, regVars, convVars, rooms, inbox, started>>

MsgRead(t) == Ev("message:read", t.user, t.conv, {t.msg}, "")

\* this.io.to(`conversation:${conversationId}`).emit("message:read", ...)
ReadEmit(t) ==
  /\ At(t, "readRT", "emit")
  /\ inbox' = EmitTo(inbox, RoomMembers(ConvRoom(t.conv)), MsgRead(t))
  /\ Finish(t)
  /\ UNCHANGED <<storeVars, regVars, convVars, rooms, started>>

\* socket.emit("error", {message: "Failed to mark message as read"})
ReadError(t) == Ev("error", "", "", {}, "Failed to mark message as read")

\* one of the awaited store calls of handleMessageRead rejects (the call at
\* t.pc): the catch block answers the calling socket
ReadFail(t) ==
  /\ t.kind = "readRT" /\ t.pc \in {"find", "addToSet", "resetUnread"}
  /\ inbox' = EmitTo(inbox, ErrorTargets(t), ReadError(t))
  /\ Finish(t)
  /\ UNCHANGED <<storeVars, regVars, convVars, rooms, started>>

(* --------------------- MessageController.markAsRead -------------------- *)
\* POST /api/messages/:messageId/read by an authenticated user
RecvRestRead(u, m) ==
  /\ m \in MessageIds
  /\ Start(Task("readREST", "find", NoSocket, u, "", m, {}))
  /\ UNCHANGED <<storeVars, regVars, convVars, rooms, inbox>>

\* await Message.findById(messageId); 400 if alreadyRead
RestReadFind(t) ==
  /\ At(t, "readREST", "find")
  /\ IF AlreadyRead(t.msg, t.user)
       THEN Finish(t)
       ELSE Step(t, [t EXCEPT !.pc = "updateOne", !.conv = messages[t.msg].conversation])
  /\ UNCHANGED <<storeVars, regVars, convVars, rooms, inbox, started>>

\* await Message.updateOne({_id}, {$addToSet: {readBy: {user, readAt}}})
RestReadUpdateOne(t) ==
  /\ At(t, "readREST", "updateOne")
  /\ Clock
  /\ messages' = [messages EXCEPT ![t.msg].readBy = AddToSetReadBy(@, t.user, now')]
  /\ Goto(t, "emit")
  /\ UNCHANGED <<users, conversations, regVars, convVars, rooms, inbox, started>>

\* io.to(message.conversation.toString()).emit("message_read", ...)
RestReadEmit(t) ==
  /\ At(t, "readREST", "emit")
  /\ inbox' = EmitTo(inbox, RoomMembers(BareRoom(t.conv)),
                     Ev("message_read", t.user, "", {t.msg}, ""))
  /\ Finish(t)
  /\ UNCHANGED <<storeVars, regVars, convVars, rooms, started>>

(* ----------------- MessageController.markMultipleAsRead ---------------- *)
\* POST /api/messages/mark-multiple-read with a non-empty messageIds array
RecvReadMany(u, c, ids) ==
  /\ ids # {} /\ ids \subseteq MessageIds
  /\ Start([Task("readMany", "findConv", NoSocket, u, c, NoMessage, {}) EXCEPT !.req = ids])
  /\ UNCHANGED <<storeVars, regVars, convVars, rooms, inbox>>

\* await Conversation.findOne({_id, "participants.user": userId}); 404 if none
ManyFindConv(t) ==
  /\ At(t, "readMany", "findConv")
  /\ IF t.user \in Participants(t.conv) THEN Goto(t, "findMsgs") ELSE Finish(t)
  /\ UNCHANGED <<storeVars, regVars, convVars, rooms, inbox, started>>

\* mutant: the filter without its conversation clause
UnreadOfAnyConv(ids, c, u) ==
  {m \in ids \cap MessageIds : u \notin Readers(m)}

\* mutant: the filter without its readBy clause
UnreadOfIgnoringReadBy(ids, c, u) ==
  {m \in ids \cap MessageIds : messages[m].conversation = c}

\* Message.find({_id: {$in: messageIds}, conversation, "readBy.user": {$ne: userId}})
UnreadOf(ids, c, u) ==
  {m \in ids \cap MessageIds : messages[m].conversation = c /\ u \notin Readers(m)}

\* await Message.find(...); 200 with updatedMessageIds: [] if none
ManyFindMsgs(t) ==
  /\ At(t, "readMany", "findMsgs")
  /\ LET found == UnreadOf(t.req, t.conv, t.user)
     IN IF found = {} THEN Finish(t)
        ELSE Step(t, [t EXCEPT !.pc = "bulkWrite", !.msgs = found])
  /\ UNCHANGED <<storeVars, regVars, convVars, rooms, inbox, started>>

\* await Message.bulkWrite(updateOperations): one $addToSet per found message
ManyBulkWrite(t) ==
  /\ At(t, "readMany", "bulkWrite")
  /\ Clock
  /\ messages' = [m \in MessageIds |->
                    IF m \in t.msgs
                      THEN [messages[m] EXCEPT !.readBy = AddToSetReadBy(@, t.user, now')]
                      ELSE messages[m]]
  /\ Goto(t, "findLatest")
  /\ UNCHANGED <<users, conversations, regVars, convVars, rooms, inbox, started>>

\* Message.findOne({_id: {$in: messageIdList}}).sort({createdAt: -1}):
\* a message of the list that no other one of the list was created after
Latest(ids) == {m \in ids : \A k \in ids : messages[k].createdAt <= messages[m].createdAt}

\* await Message.findOne(...).sort(...)
ManyFindLatest(t) ==
  /\ At(t, "readMany", "findLatest")
  /\ \E m \in Latest(t.msgs) : Step(t, [t EXCEPT !.pc = "setWatermark", !.msg = m])
  /\ UNCHANGED <<storeVars, regVars, convVars, rooms, inbox, started>>

\* await Conversation.updateOne({_id, "participants.user": userId},
\*   {$set: {"participants.$.lastReadMessage": latestMessage._id}})
ManySetWatermark(t) ==
  /\ At(t, "readMany", "setWatermark")
  /\ conversations' = [conversations EXCEPT ![t.conv].lastReadMessage =
        [u \in DOMAIN @ |-> IF u = t.user THEN t.msg ELSE @[u]]]
  /\ Goto(t, "resetUnread")
  /\ UNCHANGED <<users, messages, now, regVars, convVars, rooms, inbox, started>>

\* await Conversation.updateOne({_id, "unreadCount.user": userId},
\*   {$set: {"unreadCount.$.count": 0}})
ManyResetUnread(t) ==
  /\ At(t, "readMany", "resetUnread")
  /\ conversations' = [conversations EXCEPT ![t.conv].unreadCount = ResetUnread(@, t.user)]
  /\ Goto(t, "emit")
  /\ UNCHANGED <<users, messages, now, regVars, convVars, rooms, inbox, started>>

\* mutant: the event names the latest message only
MsgsReadLatestOnly(t) == Ev("messages_read", t.user, t.conv, {t.msg}, "")

\* {messageIds: updatedMessageIds, userId, conversationId}
MsgsRead(t) == Ev("messages_read", t.user, t.conv, t.msgs, "")

\* io.to(`conversation:${conversationId}`).emit("messages_read", ...)
ManyEmit(t) ==
  /\ At(t, "readMany", "emit")
  /\ inbox' = EmitTo(inbox, RoomMembers(ConvRoom(t.conv)), MsgsRead(t))
  /\ Finish(t)
  /\ UNCHANGED <<storeVars, regVars, convVars, rooms, started>>

(* --------------------------- specifications ---------------------------- *)
PresenceOf(devices) ==
  \E s \in devices :
    \/ Connect(s)
    \/ ConnPersistOnline(s)
    \/ ConnRegister(s)
    \/ ConnAnnounce(s)
    \/ Disconnect(s)
    \/ DiscPersistOffline(s)
    \/ DiscUnregister(s)

PresenceNext == PresenceOf(Sockets)

\* connects and disconnects on a fresh server
SpecPresence == Init /\ [][PresenceNext]_vars

\* join:conversation for each conversation the user takes part in
JoinedRooms(u) == {ConvRoom(c) : c \in {k \in Convs : u \in InitParticipants[k]}}

\* s1 (A) and then s2 (B) have connected, their handleConnection calls have
\* finished, and both have joined the rooms of their conversations; s3 has
\* not connected
InitConnected ==
  /\ users = [u \in Users |-> [status |-> IF u = "C" THEN "offline" ELSE "online"]]
  /\ conversations = [c \in Convs |-> NewConversation(InitParticipants[c])]
  /\ messages = <<>>
  /\ now = 0
  /\ connectedUsers = [u \in Users |-> CASE u = "A" -> "s1" [] u = "B" -> "s2"
                                         [] OTHER -> NoSocket]
  /\ live = {"s1", "s2"}
  /\ connPc = [s \in Sockets |-> IF s = "s3" THEN "fresh" ELSE "done"]
  /\ cookie = [s \in Sockets |-> IF s = "s3" THEN NoCookie ELSE "valid"]
  /\ Conversation = <<>>
  /\ res = NoResponse
  /\ discPc = [s \in Sockets |-> "none"]
  /\ connSnap = [s \in Sockets |-> CASE s = "s1" -> {"A"} [] s = "s2" -> {"A", "B"}
                                     [] OTHER -> {}]
  /\ rooms = [s \in Sockets |-> IF s = "s3" THEN {} ELSE JoinedRooms(SocketUser[s])]
  /\ inbox = [s \in Sockets |->
       CASE s = "s1" -> SetToBag({SnapshotEv({"A"}), StatusEv("B", "online")})
         [] s = "s2" -> SetToBag({SnapshotEv({"A", "B"})})
         [] OTHER -> EmptyBag]
  /\ tasks = EmptyBag
  /\ started = 0

SendRTNext ==
  \/ \E s \in Sockets, c \in Convs : RecvSend(s, c)
  \/ \E t \in Running :
       \/ SendSave(t)
       \/ SendAddSender(t)
       \/ SendUpdateConv(t)
       \/ SendFanout(t)

SendRestNext ==
  \/ \E u \in Users, c \in Convs : RecvRestSend(u, c)
  \/ \E t \in Running :
       \/ RestSendFindConv(t)
       \/ RestSendSave(t)
       \/ RestSendConvSave(t)
       \/ RestSendEmit(t)

ReadRTNext ==
  \/ \E s \in Sockets, c \in Convs, m \in MsgIdSpace : RecvRead(s, c, m)
  \/ \E t \in Running :
       \/ ReadFind(t)
       \/ ReadAddToSet(t)
       \/ ReadResetUnread(t)
       \/ ReadEmit(t)

ReadRestNext ==
  \/ \E u \in Users, m \in MsgIdSpace : RecvRestRead(u, m)
  \/ \E t \in Running :
       \/ RestReadFind(t)
       \/ RestReadUpdateOne(t)
       \/ RestReadEmit(t)

ReadManyNext ==
  \/ \E u \in Users, c \in Convs, ids \in SUBSET MsgIdSpace : RecvReadMany(u, c, ids)
  \/ \E t \in Running :
       \/ ManyFindConv(t)
       \/ ManyFindMsgs(t)
       \/ ManyBulkWrite(t)
       \/ ManyFindLatest(t)
       \/ ManySetWatermark(t)
       \/ ManyResetUnread(t)
       \/ ManyEmit(t)

\* InitConnected after A has sent one message into c1 through message:send
\* and the handler has finished (every timestamp read before the clock moved)
SentTask == [Task("sendRT", "fanout", "s1", "A", "c1", 1, {}) EXCEPT
               !.snap = [participants |-> InitParticipants["c1"],
                         lastMessage |-> 1,
                         unreadCount |-> IncUnread([u \in InitParticipants["c1"] |-> 0], "A")]]

SentState ==
  /\ tasks = EmptyBag
  /\ users = [u \in Users |-> [status |-> IF u = "C" THEN "offline" ELSE "online"]]
  /\ conversations = [c \in Convs |->
       IF c = "c1"
         THEN [NewConversation(InitParticipants[c]) EXCEPT
                 !.lastMessage = 1, !.unreadCount = IncUnread(@, "A")]
         ELSE NewConversation(InitParticipants[c])]
  /\ messages = <<[NewMessage("c1", "A", 0) EXCEPT !.readBy = AddToSetReadBy(@, "A", 0)]>>
  /\ now = 0
  /\ connectedUsers = [u \in Users |-> CASE u = "A" -> "s1" [] u = "B" -> "s2"
                                         [] OTHER -> NoSocket]
  /\ live = {"s1", "s2"}
  /\ connPc = [s \in Sockets |-> IF s = "s3" THEN "fresh" ELSE "done"]
  /\ cookie = [s \in Sockets |-> IF s = "s3" THEN NoCookie ELSE "valid"]
  /\ Conversation = <<>>
  /\ res = NoResponse
  /\ discPc = [s \in Sockets |-> "none"]
  /\ connSnap = [s \in Sockets |-> CASE s = "s1" -> {"A"} [] s = "s2" -> {"A", "B"}
                                     [] OTHER -> {}]
  /\ rooms = [s \in Sockets |-> IF s = "s3" THEN {} ELSE JoinedRooms(SocketUser[s])]
  /\ inbox = [s \in Sockets |->
       CASE s = "s1" -> SetToBag({SnapshotEv({"A"}), StatusEv("B", "online"),
                                  MsgNew(SentTask), ConvUpdated(SentTask)})
         [] s = "s2" -> SetToBag({SnapshotEv({"A", "B"}),
                                  MsgNew(SentTask), ConvUpdated(SentTask)})
         [] OTHER -> EmptyBag]

InitSent == started = 0 /\ SentState

\* InitSent after A has also sent a message into c2 through message:send
SentTask2 == [Task("sendRT", "fanout", "s1", "A", "c2", 2, {}) EXCEPT
                !.snap = [participants |-> InitParticipants["c2"],
                          lastMessage |-> 2,
                          unreadCount |-> IncUnread([u \in InitParticipants["c2"] |-> 0], "A")]]

TwoSentState ==
  /\ tasks = EmptyBag
  /\ users = [u \in Users |-> [status |-> IF u = "C" THEN "offline" ELSE "online"]]
  /\ conversations = [c \in Convs |->
       [NewConversation(InitParticipants[c]) EXCEPT
          !.lastMessage = IF c = "c1" THEN 1 ELSE 2,
          !.unreadCount = IncUnread(@, "A")]]
  /\ messages = <<[NewMessage("c1", "A", 0) EXCEPT !.readBy = AddToSetReadBy(@, "A", 0)],
                  [NewMessage("c2", "A", 0) EXCEPT !.readBy = AddToSetReadBy(@, "A", 0)]>>
  /\ now = 0
  /\ connectedUsers = [u \in Users |-> CASE u = "A" -> "s1" [] u = "B" -> "s2"
                                         [] OTHER -> NoSocket]
  /\ live = {"s1", "s2"}
  /\ connPc = [s \in Sockets |-> IF s = "s3" THEN "fresh" ELSE "done"]
  /\ cookie = [s \in Sockets |-> IF s = "s3" THEN NoCookie ELSE "valid"]
  /\ Conversation = <<>>
  /\ res = NoResponse
  /\ discPc = [s \in Sockets |-> "none"]
  /\ connSnap = [s \in Sockets |-> CASE s = "s1" -> {"A"} [] s = "s2" -> {"A", "B"}
                                     [] OTHER -> {}]
  /\ rooms = [s \in Sockets |-> IF s = "s3" THEN {} ELSE JoinedRooms(SocketUser[s])]
  /\ inbox = [s \in Sockets |->
       CASE s = "s1" -> SetToBag({SnapshotEv({"A"}), StatusEv("B", "online"),
                                  MsgNew(SentTask), ConvUpdated(SentTask),
                                  MsgNew(SentTask2), ConvUpdated(SentTask2)})
         [] s = "s2" -> SetToBag({SnapshotEv({"A", "B"}),
                                  MsgNew(SentTask), ConvUpdated(SentTask)})
         [] OTHER -> EmptyBag]

InitTwoSent == started = 0 /\ TwoSentState

\* the message store under every send and read-mark path, sessions staying connected
StoreNext == SendRTNext \/ SendRestNext \/ ReadRTNext \/ ReadRestNext \/ ReadManyNext

Spec == InitConnected /\ [][StoreNext]_vars

\* the real-time pipeline alone: message:send and message:read events
PipelineNext == SendRTNext \/ ReadRTNext

SpecPipeline == InitConnected /\ [][PipelineNext]_vars

\* message:send events, some of them naming a conversation that does not exist
SpecUnknownSend ==
  InitConnected /\ [][SendRTNext \/ \E s \in Sockets : RecvSendUnknown(s)]_vars

\* sends over both paths: message:send events and POST /api/messages
SpecSends == InitConnected /\ [][SendRTNext \/ SendRestNext]_vars

\* every read-mark path over the message sent so far
ReadNext == ReadRTNext \/ ReadRestNext \/ ReadManyNext

SpecRead == InitSent /\ [][ReadNext]_vars

\* real-time sends while B's second device (s3) connects and disconnects
FanoutNext == PresenceOf({"s3"}) \/ SendRTNext

SpecFanout == InitConnected /\ [][FanoutNext]_vars

\* refused handshakes of any socket, connects and disconnects of s1, and the
\* join / leave handlers
HandshakeNext ==
  \/ \E s \in Sockets : RejectHandshake(s)
  \/ PresenceOf({"s1"})
  \/ RoomsNext

SpecHandshake == Init /\ [][HandshakeNext]_vars

\* message:read events, with known and unknown ids, whose store calls may fail
ReadErrNext ==
  \/ \E s \in Sockets, c \in Convs, m \in MsgIdSpace :
       RecvRead(s, c, m) \/ RecvReadUnknown(s, c, m)
  \/ \E t \in Running :
       \/ ReadFind(t)
       \/ ReadAddToSet(t)
       \/ ReadResetUnread(t)
       \/ ReadEmit(t)
       \/ ReadFail(t)

\* sessions that drop
DisconnectsOf(devices) ==
  \E s \in devices :
    \/ Disconnect(s)
    \/ DiscPersistOffline(s)
    \/ DiscUnregister(s)

(* -------------------- MessageController.deleteMessage ------------------ *)
\* DELETE /api/messages/:messageId by an authenticated user
RecvDelete(u, m) ==
  /\ m \in MessageIds
  /\ Start(Task("delete", "find", NoSocket, u, messages[m].conversation, m, {}))
  /\ UNCHANGED <<storeVars, regVars, convVars, rooms, inbox>>

\* await Message.findById(messageId); 403 unless the caller is the sender
DeleteFind(t) ==
  /\ At(t, "delete", "find")
  /\ IF messages[t.msg].sender = t.user THEN Goto(t, "save") ELSE Finish(t)
  /\ UNCHANGED <<storeVars, regVars, convVars, rooms, inbox, started>>

\* message.isDeleted = true; ...; await message.save()
DeleteSave(t) ==
  /\ At(t, "delete", "save")
  /\ messages' = [messages EXCEPT ![t.msg].isDeleted = TRUE]
  /\ Goto(t, "findConv")
  /\ UNCHANGED <<users, conversations, now, regVars, convVars, rooms, inbox, started>>

\* io.to(message.conversation.toString()).emit("message_deleted", ...)
DeleteEmit(t) ==
  inbox' = EmitTo(inbox, RoomMembers(BareRoom(t.conv)),
                  Ev("message_deleted", t.user, "", {t.msg}, ""))

\* await Conversation.findById(message.conversation); when its lastMessage is
\* not the deleted message the handler emits and responds
DeleteFindConv(t) ==
  /\ At(t, "delete", "findConv")
  /\ IF conversations[t.conv].lastMessage = t.msg
       THEN Goto(t, "findLatest") /\ UNCHANGED inbox
       ELSE Finish(t) /\ DeleteEmit(t)
  /\ UNCHANGED <<storeVars, regVars, convVars, rooms, started>>

\* the non-deleted messages of conversation c
Kept(c) == {m \in MessageIds : messages[m].conversation = c /\ ~messages[m].isDeleted}

\* await Message.findOne({conversation, isDeleted: false}).sort({createdAt: -1}):
\* a latest one (any of them when their createdAt are equal), or none
DeleteFindLatest(t) ==
  /\ At(t, "delete", "findLatest")
  /\ \E last \in (IF Kept(t.conv) = {} THEN {NoMessage} ELSE Latest(Kept(t.conv))) :
       Step(t, [t EXCEPT !.pc = "convSave", !.msgs = {last}])
  /\ UNCHANGED <<storeVars, regVars, convVars, rooms, inbox, started>>

\* conversation.lastMessage = lastMessage ? lastMessage._id : undefined;
\* await conversation.save(); then the emit and the response
DeleteConvSave(t) ==
  /\ At(t, "delete", "convSave")
  /\ \E last \in t.msgs :
       conversations' = [conversations EXCEPT ![t.conv].lastMessage = last]
  /\ DeleteEmit(t)
  /\ Finish(t)
  /\ UNCHANGED <<users, messages, now, regVars, convVars, rooms, started>>

DeleteNext ==
  \/ \E u \in Users, m \in MsgIdSpace : RecvDelete(u, m)
  \/ \E t \in Running :
       \/ DeleteFind(t)
       \/ DeleteSave(t)
       \/ DeleteFindConv(t)
       \/ DeleteFindLatest(t)
       \/ DeleteConvSave(t)

(* ------------ MessageController.addReaction / removeReaction ----------- *)
Emojis == {"+1", "heart"}

Reaction(user, emoji) == [user |-> user, emoji |-> emoji]

\* the indexes of user's reactions in a reactions array
ReactionsOf(reactions, user) == {i \in DOMAIN reactions : reactions[i].user = user}

\* message.reactions.find(reaction => reaction.user == userId): the first one
FirstReactionOf(reactions, user) ==
  CHOOSE i \in ReactionsOf(reactions, user) : \A j \in ReactionsOf(reactions, user) : i <= j

\* POST /api/messages/:messageId/reactions with {emoji}
RecvAddReaction(u, m, emoji) ==
  /\ m \in MessageIds
  /\ Start([Task("addReaction", "find", NoSocket, u, messages[m].conversation, m, {})
              EXCEPT !.req = emoji])
  /\ UNCHANGED <<storeVars, regVars, convVars, rooms, inbox>>

\* DELETE /api/messages/:messageId/reactions/:reactionId
RecvRemoveReaction(u, m) ==
  /\ m \in MessageIds
  /\ Start(Task("removeReaction", "find", NoSocket, u, messages[m].conversation, m, {}))
  /\ UNCHANGED <<storeVars, regVars, convVars, rooms, inbox>>

\* await Message.findById(messageId): the handler holds the message's reactions
ReactionFind(t) ==
  /\ t.kind \in {"addReaction", "removeReaction"} /\ t.pc = "find"
  /\ Step(t, [t EXCEPT !.pc = "save", !.snap = messages[t.msg].reactions])
  /\ UNCHANGED <<storeVars, regVars, convVars, rooms, inbox, started>>

\* message.reactions.push({user, emoji, createdAt}) as save() writes it: a
\* $push onto the stored array
PushReaction(stored, t) == stored \o <<Reaction(t.user, t.req)>>

\* existingReaction.emoji = emoji as save() writes it: a $set of
\* reactions.<index>.emoji, the index being the one in the loaded array; past
\* the end of the stored array it makes an element that has only the emoji
SetEmoji(stored, t) ==
  LET i == FirstReactionOf(t.snap, t.user)
  IN  IF i \in DOMAIN stored
        THEN [stored EXCEPT ![i].emoji = t.req]
        ELSE stored \o <<Reaction("", t.req)>>

\* the reactions a save() of handler t leaves in the store
SavedReactions(stored, t) ==
  IF t.kind = "removeReaction"
    THEN SelectSeq(t.snap, LAMBDA r : r.user # t.user)
  ELSE IF ReactionsOf(t.snap, t.user) # {}
    THEN SetEmoji(stored, t)
  ELSE PushReaction(stored, t)

\* a save() that the store may refuse because the document's version moved
\* since it was loaded: one that sets the array or an element of it, not a push
Versioned(t) ==
  t.kind = "removeReaction" \/ ReactionsOf(t.snap, t.user) # {}

ReactionEv(t) ==
  IF t.kind = "addReaction"
    THEN Ev("message_reaction", t.user, "", {t.msg}, t.req)
    ELSE Ev("message_reaction_removed", t.user, "", {t.msg}, "")

\* await message.save(), then io.to(message.conversation.toString()).emit(...)
\* and res.json(message); a refused save goes to the catch (500), no emit
ReactionSave(t) ==
  /\ t.kind \in {"addReaction", "removeReaction"} /\ t.pc = "save"
  /\ \/ /\ messages' = [messages EXCEPT
                          ![t.msg].reactions = SavedReactions(messages[t.msg].reactions, t)]
        /\ inbox' = EmitTo(inbox, RoomMembers(BareRoom(t.conv)), ReactionEv(t))
     \/ /\ Versioned(t)
        /\ messages[t.msg].reactions # t.snap
        /\ UNCHANGED <<messages, inbox>>
  /\ Finish(t)
  /\ UNCHANGED <<users, conversations, now, regVars, convVars, rooms, started>>

ReactionNext ==
  \/ \E u \in Users, m \in MsgIdSpace, e \in Emojis : RecvAddReaction(u, m, e)
  \/ \E u \in Users, m \in MsgIdSpace : RecvRemoveReaction(u, m)
  \/ \E t \in Running : ReactionFind(t)
  \/ \E t \in Running : ReactionSave(t)

\* reactions on the one message sent so far
SpecReactions == InitSent /\ [][ReactionNext]_vars

(* ----------------------- conversation controller ---------------------- *)
\* the type values createConversation accepts
ConvTypes == {"direct", "group", "channel", "broadcast"}

\* request inputs: a type (one of them invalid), a name or none, a list of
\* user ids (empty, one id, or two: different users, one user twice, a user
\* and an id of no user) and a conversation id (of no conversation until
\* that many were created)
TypeInputs == {"direct", "group", "poll"}
NameInputs == {"", "n"}
UnknownUser == "Z"
IdPairs ==
  {<<"A", "B">>, <<"B", "C">>, <<"C", "A">>, <<"B", "B">>, <<"C", UnknownUser>>}
IdLists == {<<>>} \cup {<<u>> : u \in Users \cup {UnknownUser}} \cup IdPairs
ConvIds == 1..MaxConvs

Ids(list) == {list[i] : i \in DOMAIN list}

\* UserModel.find({_id: {$in: participantIds}})
ExistingUsers(participantIds) == Ids(participantIds) \cap Users

Participant(user, role) == [user |-> user, role |-> role]

\* the participants array of a new conversation: the creator as owner, then
\* every requested id as member
ParticipantsWithRoles(creatorId, participantIds) ==
  <<Participant(creatorId, "owner")>> \o
    [i \in DOMAIN participantIds |-> Participant(participantIds[i], "member")]

\* what save() lets through: a direct conversation has 2 participants
\* entries and no admins, any other has a name
SchemaValid(doc) ==
  IF doc.type = "direct"
    THEN Len(doc.participants) = 2 /\ doc.admins = <<>>
    ELSE doc.name # ""

\* res.status(status).json({message}) with the collection left alone
Respond(status, message) ==
  /\ res' = [status |-> status, message |-> message]
  /\ UNCHANGED Conversation

\* await conversation.save(), then the handler's success response
Save(id, doc, status) ==
  IF SchemaValid(doc)
    THEN /\ Conversation' = IF id \in DOMAIN Conversation
                               THEN [Conversation EXCEPT ![id] = doc]
                               ELSE Append(Conversation, doc)
         /\ res' = [status |-> status, message |-> ""]
    ELSE Respond(500, "Error")

\* Conversation.findOne({_id, "participants.user": req.user._id, isDeleted: false})
Found(id, userId) ==
  /\ id \in DOMAIN Conversation
  /\ \E i \in DOMAIN Conversation[id].participants :
       Conversation[id].participants[i].user = userId

\* conversation.participants.find(p => p.user == userId): the first entry
RoleOf(doc, userId) ==
  LET at == {i \in DOMAIN doc.participants : doc.participants[i].user = userId}
      first == CHOOSE i \in at : \A j \in at : i <= j
  IN  doc.participants[first].role

Without(list, ids) == SelectSeq(list, LAMBDA p : p.user \notin ids)

createConversation(creatorId, type, name, participants) ==
  /\ Len(Conversation) < MaxConvs
  /\ IF type \notin ConvTypes
       THEN Respond(400, "Invalid conversation type")
     ELSE IF type # "direct" /\ name = ""
       THEN Respond(400, "Name is required for group/channel/broadcast")
     ELSE IF type = "direct" /\ Len(participants) # 1
       THEN Respond(400, "Direct conversation must have exactly 2 participants")
     ELSE IF Cardinality(ExistingUsers(participants)) # Len(participants)
       THEN Respond(400, "One or more participants do not exist")
     ELSE LET participantsWithRoles == ParticipantsWithRoles(creatorId, participants)
              conversation ==
                [type |-> type,
                 name |-> name,
                 participants |-> participantsWithRoles,
                 admins |-> IF type # "direct"
                              THEN <<Participant(creatorId, "owner")>>
                              ELSE <<>>,
                 memberCount |-> Len(participantsWithRoles)]
          IN  Save(Len(Conversation) + 1, conversation, 201)
  /\ UNCHANGED <<storeVars, regVars, rooms, inbox, tasks, started>>

NeverDirect(conversation) == FALSE

\* conversation.type === "direct"
IsDirect(conversation) == conversation.type = "direct"

OwnerNeverNamed(conversation, participants) == FALSE

\* conversation.participants.find(p => p.role === "owner" &&
\*   participantIds.some(id => id == p.user))
OwnerNamed(conversation, participants) ==
  \E i \in DOMAIN conversation.participants :
    /\ conversation.participants[i].role = "owner"
    /\ conversation.participants[i].user \in Ids(participants)

\* a response sent before the handler has changed anything
Reject(status, message) ==
  /\ Respond(status, message)
  /\ UNCHANGED <<tasks, started>>

\* the handler holds `conversation` as findOne returned it and has turned its
\* copy into `doc`; await conversation.save() is still to come
Loaded(kind, userId, conversationId, conversation, doc, participants) ==
  /\ Start([Task(kind, "save", NoSocket, userId, conversationId, NoMessage, {}) EXCEPT
              !.snap = [loaded |-> conversation, doc |-> doc],
              !.req = participants])
  /\ UNCHANGED convVars

NewMembers(participants) ==
  [i \in DOMAIN participants |-> Participant(participants[i], "member")]

\* addParticipants up to its save
addParticipants(userId, conversationId, participants) ==
  /\ IF ~Found(conversationId, userId)
       THEN Reject(404, "Conversation not found")
     ELSE LET conversation == Conversation[conversationId] IN
       IF IsDirect(conversation)
         THEN Reject(400, "Cannot add participants to direct conversation")
       ELSE IF RoleOf(conversation, userId) \notin {"admin", "owner"}
         THEN Reject(403, "Not authorized to add participants")
       ELSE IF Cardinality(ExistingUsers(participants)) # Len(participants)
         THEN Reject(400, "One or more participants do not exist")
       ELSE IF \E i \in DOMAIN conversation.participants :
                 conversation.participants[i].user \in Ids(participants)
         THEN Reject(400, "One or more participants already in conversation")
       ELSE LET pushed == conversation.participants \o NewMembers(participants)
            IN  Loaded("add", userId, conversationId, conversation,
                       [conversation EXCEPT !.participants = pushed,
                                            !.memberCount = Len(pushed)],
                       participants)
  /\ UNCHANGED <<storeVars, regVars, rooms, inbox>>

\* removeParticipants up to its save
removeParticipants(userId, conversationId, participants) ==
  /\ IF ~Found(conversationId, userId)
       THEN Reject(404, "Conversation not found")
     ELSE LET conversation == Conversation[conversationId] IN
       IF IsDirect(conversation)
         THEN Reject(400, "Cannot remove participants from direct conversation")
       ELSE IF RoleOf(conversation, userId) \notin {"admin", "owner"}
         THEN Reject(403, "Not authorized to remove participants")
       ELSE IF OwnerNamed(conversation, participants)
         THEN Reject(400, "Cannot remove the owner from conversation")
       ELSE LET kept == Without(conversation.participants, Ids(participants))
            IN  Loaded("remove", userId, conversationId, conversation,
                       [conversation EXCEPT
                          !.participants = kept,
                          !.memberCount = Len(kept),
                          !.admins = Without(conversation.admins, Ids(participants))],
                       participants)
  /\ UNCHANGED <<storeVars, regVars, rooms, inbox>>

\* leaveConversation up to its save
leaveConversation(userId, conversationId) ==
  /\ IF ~Found(conversationId, userId)
       THEN Reject(404, "Conversation not found")
     ELSE LET conversation == Conversation[conversationId] IN
       IF IsDirect(conversation)
         THEN Reject(400, "Cannot leave direct conversation")
       ELSE IF RoleOf(conversation, userId) = "owner"
         THEN Reject(400, "Owner cannot leave the conversation")
       ELSE LET kept == Without(conversation.participants, {userId})
            IN  Loaded("leave", userId, conversationId, conversation,
                       [conversation EXCEPT
                          !.participants = kept,
                          !.memberCount = Len(kept),
                          !.admins = Without(conversation.admins, {userId})],
                       <<>>)
  /\ UNCHANGED <<storeVars, regVars, rooms, inbox>>

\* await conversation.save() of addParticipants, then res.json: the pushed
\* entries go onto the stored array ($push), memberCount is the handler's own
addParticipantsSave(t) ==
  /\ At(t, "add", "save")
  /\ IF SchemaValid(t.snap.doc)
       THEN /\ Conversation' =
                 [Conversation EXCEPT
                    ![t.conv].participants = @ \o NewMembers(t.req),
                    ![t.conv].memberCount = t.snap.doc.memberCount]
            /\ res' = [status |-> 200, message |-> ""]
       ELSE Respond(500, "Error adding participants")
  /\ Finish(t)
  /\ UNCHANGED <<storeVars, regVars, rooms, inbox, started>>

\* await conversation.save() of removeParticipants and leaveConversation, then
\* res.json: the filtered arrays replace the stored ones; when the stored
\* document is no longer the one findOne returned, the save may instead be
\* refused (the document's version moved), which the catch answers with 500
FilteredSave(t) ==
  /\ t.kind \in {"remove", "leave"} /\ t.pc = "save"
  /\ \/ IF SchemaValid(t.snap.doc)
          THEN /\ Conversation' = [Conversation EXCEPT ![t.conv] = t.snap.doc]
               /\ res' = [status |-> 200, message |-> ""]
          ELSE Respond(500, "Error")
     \/ /\ Conversation[t.conv] # t.snap.loaded
        /\ Respond(500, "Error")
  /\ Finish(t)
  /\ UNCHANGED <<storeVars, regVars, rooms, inbox, started>>

\* requests to the conversation endpoints, from any user, overlapping freely
ConversationNext ==
  \/ \E u \in Users, type \in TypeInputs, name \in NameInputs, ps \in IdLists :
       createConversation(u, type, name, ps)
  \/ \E u \in Users, id \in ConvIds, ps \in IdLists : addParticipants(u, id, ps)
  \/ \E u \in Users, id \in ConvIds, ps \in IdLists : removeParticipants(u, id, ps)
  \/ \E u \in Users, id \in ConvIds : leaveConversation(u, id)
  \/ \E t \in Running : addParticipantsSave(t)
  \/ \E t \in Running : FilteredSave(t)

SpecConversations == Init /\ [][ConversationNext]_vars

\* real-time sends of A into c1 while the sessions of A and B drop
DisconnectSendNext ==
  \/ RecvSend("s1", "c1")
  \/ \E t \in Running :
       \/ SendSave(t)
       \/ SendAddSender(t)
       \/ SendUpdateConv(t)
       \/ SendFanout(t)
  \/ DisconnectsOf({"s1", "s2"})

SpecDisconnectSend == InitConnected /\ [][DisconnectSendNext]_vars

\* typing events while B's second device connects and disconnects
SpecTyping == InitConnected /\ [][TypingNext \/ PresenceOf({"s3"})]_vars

\* joins and leaves while B's second device connects and disconnects
SpecRooms == InitConnected /\ [][RoomsNext \/ PresenceOf({"s3"})]_vars

\* InitSent after A has sent a second message into c1 through message:send,
\* one clock tick after the first
SentTask3 == [Task("sendRT", "fanout", "s1", "A", "c1", 2, {}) EXCEPT
                !.snap = [participants |-> InitParticipants["c1"],
                          lastMessage |-> 2,
                          unreadCount |-> IncUnread(IncUnread([u \in InitParticipants["c1"] |-> 0], "A"), "A")]]

TwoInC1State ==
  /\ tasks = EmptyBag
  /\ users = [u \in Users |-> [status |-> IF u = "C" THEN "offline" ELSE "online"]]
  /\ conversations = [c \in Convs |->
       IF c = "c1"
         THEN [NewConversation(InitParticipants[c]) EXCEPT
                 !.lastMessage = 2, !.unreadCount = IncUnread(IncUnread(@, "A"), "A")]
         ELSE NewConversation(InitParticipants[c])]
  /\ messages = <<[NewMessage("c1", "A", 0) EXCEPT !.readBy = AddToSetReadBy(@, "A", 0)],
                  [NewMessage("c1", "A", 1) EXCEPT !.readBy = AddToSetReadBy(@, "A", 1)]>>
  /\ now = 1
  /\ connectedUsers = [u \in Users |-> CASE u = "A" -> "s1" [] u = "B" -> "s2"
                                         [] OTHER -> NoSocket]
  /\ live = {"s1", "s2"}
  /\ connPc = [s \in Sockets |-> IF s = "s3" THEN "fresh" ELSE "done"]
  /\ cookie = [s \in Sockets |-> IF s = "s3" THEN NoCookie ELSE "valid"]
  /\ Conversation = <<>>
  /\ res = NoResponse
  /\ discPc = [s \in Sockets |-> "none"]
  /\ connSnap = [s \in Sockets |-> CASE s = "s1" -> {"A"} [] s = "s2" -> {"A", "B"}
                                     [] OTHER -> {}]
  /\ rooms = [s \in Sockets |-> IF s = "s3" THEN {} ELSE JoinedRooms(SocketUser[s])]
  /\ inbox = [s \in Sockets |->
       CASE s = "s1" -> SetToBag({SnapshotEv({"A"}), StatusEv("B", "online"),
                                  MsgNew(SentTask), ConvUpdated(SentTask),
                                  MsgNew(SentTask3), ConvUpdated(SentTask3)})
         [] s = "s2" -> SetToBag({SnapshotEv({"A", "B"}),
                                  MsgNew(SentTask), ConvUpdated(SentTask),
                                  MsgNew(SentTask3), ConvUpdated(SentTask3)})
         [] OTHER -> EmptyBag]

InitTwoInC1 == started = 0 /\ TwoInC1State

\* the batch read-mark endpoint over two messages of one conversation
SpecWatermark == InitTwoInC1 /\ [][ReadManyNext]_vars

\* deletions of the two messages of c1
SpecDelete == InitTwoInC1 /\ [][DeleteNext]_vars

\* real-time sends of A whose store calls may fail
SendFailNext ==
  \/ \E c \in Convs : RecvSend("s1", c)
  \/ \E t \in Running :
       \/ SendSave(t)
       \/ SendAddSender(t)
       \/ SendUpdateConv(t)
       \/ SendFanout(t)
       \/ SendFail(t)

SpecSendFail == InitConnected /\ [][SendFailNext]_vars

\* failing sends and failing read marks over the message sent so far
SpecErrors == InitSent /\ [][SendFailNext \/ ReadErrNext]_vars

\* the batch read-mark endpoint over two sent messages
BatchNext == ReadManyNext

SpecBatch == InitTwoSent /\ [][BatchNext]_vars

(* ============================== claims ================================= *)
UnreadCount(c, u) == conversations[c].unreadCount[u]
Unread(c, u) == {m \in MessageIds : messages[m].conversation = c /\ u \notin Readers(m)}
\* handler t takes its step
Moves(t) == CopiesIn(t, tasks') < CopiesIn(t, tasks)
\* copies of ev that this step delivers to socket s
Got(s, ev) == CopiesIn(ev, inbox'[s]) - CopiesIn(ev, inbox[s])

\* C1: each message's readBy holds at most one entry per user, in every
\* reachable state, under any interleaving of single and batch mark-read calls.
C1_ReadByUniquePerUser ==
  \A m \in MessageIds : \A r1, r2 \in messages[m].readBy :
    r1.user = r2.user => r1 = r2

\* C2: the sender of every persisted message is in its readBy, from the moment
\* the message is persisted.
C2_SenderInReadBy ==
  \A m \in MessageIds : messages[m].sender \in Readers(m)

\* C3: the step of a send that sets the conversation's lastMessage to the new
\* message raises the unread counter of every participant but the sender by
\* exactly 1 and leaves the sender's counter unchanged, on every send path.
C3_SendUpdatesConversation ==
  [][\A c \in Convs :
       conversations'[c].lastMessage # conversations[c].lastMessage =>
         \A u \in Participants(c) :
           conversations'[c].unreadCount[u] =
             UnreadCount(c, u)
               + (IF u # messages[conversations'[c].lastMessage].sender THEN 1 ELSE 0)]_vars

\* the conversation update of the send that created m has been applied
Applied(m) ==
  ~\E t \in Running : t.kind = "sendRT" /\ t.msg = m /\ t.pc \in {"addSender", "updateConv"}
\* P has no readBy entry anywhere: P has marked nothing read (a read mark
\* writes the entry before it resets the counter) and has sent nothing
NeverMarked(P) == \A m \in MessageIds : P \notin Readers(m)

C5_UnreadMatchesReadBy ==
  tasks = EmptyBag =>
    \A c \in Convs : \A u \in Participants(c) :
      UnreadCount(c, u) = Cardinality(Unread(c, u))

IsMarkRead(t) == t.kind \in {"readRT", "readREST"}

\* C6: a markRead call (message:read or the REST endpoint) that finds the user
\* already in the message's readBy returns at once: readBy, every unread
\* counter, every watermark and every inbox are unchanged (no message:read is
\* emitted); and the write of a markRead call for a user not yet in readBy
\* grows that readBy by exactly 1.
C6_MarkReadIdempotent ==
  [][\A t \in Running :
       /\ (IsMarkRead(t) /\ t.pc = "find" /\ t.user \in Readers(t.msg) /\ Moves(t)) =>
            /\ tasks' = tasks (-) SetToBag({t})
            /\ UNCHANGED <<messages, conversations, inbox>>
       /\ (IsMarkRead(t) /\ t.pc \in {"addToSet", "updateOne"}
             /\ t.user \notin Readers(t.msg) /\ Moves(t)) =>
            Cardinality(messages'[t.msg].readBy) = Cardinality(messages[t.msg].readBy) + 1]_vars

\* C6 witness: B, who marked message 1 read before (B is in its readBy without
\* being its sender), has a second markRead call for it at its lookup.
C6_RepeatedMarkRead ==
  \E t \in Running :
    /\ IsMarkRead(t) /\ t.pc = "find" /\ t.user = "B" /\ t.msg = 1
    /\ messages[1].sender = "A"
    /\ "B" \in Readers(1)
    /\ UnreadCount("c1", "B") = 0

\* a session that is connected and whose handleConnection has finished
Active(s) == s \in live /\ connPc[s] = "done"

\* C7: the fan-out of a send delivers exactly one message:new and one
\* conversation:updated to every participant other than the sender who has
\* an active session (on one of its open sessions), joined or not.
C7_OnlineParticipantsNotified ==
  [][\A t \in Running :
       (At(t, "sendRT", "fanout") /\ Moves(t)) =>
         \A p \in Participants(t.conv) \ {t.user} :
           (\E s \in Sockets : Active(s) /\ SocketUser[s] = p) =>
             \E s \in live :
               /\ SocketUser[s] = p
               /\ Got(s, MsgNew(t)) = 1
               /\ Got(s, ConvUpdated(t)) = 1]_vars

\* C8: the fan-out of a send delivers message:new and conversation:updated to
\* each active session of every participant, the sender's sessions included.
C8_EverySessionNotified ==
  [][\A t \in Running :
       (At(t, "sendRT", "fanout") /\ Moves(t)) =>
         \A s \in Sockets :
           (Active(s) /\ SocketUser[s] \in Participants(t.conv) \cup {t.user}) =>
             /\ Got(s, MsgNew(t)) = 1
             /\ Got(s, ConvUpdated(t)) = 1]_vars

\* no handleConnection or handleDisconnect call is in flight
HandlersIdle ==
  \A s \in Sockets : connPc[s] \in {"fresh", "done"} /\ discPc[s] \in {"none", "done"}

\* C9: once the connect and disconnect handlers have finished, the registry
\* reports an identity online iff one of its sessions is still connected.
C9_RegistryTracksSessions ==
  HandlersIdle =>
    \A u \in Users :
      (connectedUsers[u] # NoSocket) <=> (\E s \in live : SocketUser[s] = u)

\* C10: while an identity still has a connected session, no step persists
\* status offline for it or delivers a user:status{offline} event about it.
C10_OfflineOnlyOnLastDisconnect ==
  [][\A u \in Users :
       (\E s \in live' : SocketUser[s] = u) =>
         /\ users[u].status = "online" => users'[u].status = "online"
         /\ \A s \in Sockets : Got(s, StatusEv(u, "offline")) = 0]_vars

\* the step in which handleConnection of s does its emits
Announces(s) == connPc[s] = "announce" /\ connPc'[s] = "done"
\* another session of the same identity is connected
OtherSession(s) == \E r \in live \ {s} : SocketUser[r] = SocketUser[s]

\* C11: when the session that connects is the identity's only one, every
\* other connected session receives exactly one user:status{online} and the
\* connecting session none; when the identity already has a connected
\* session, nobody receives an online broadcast.
C11_OnlineBroadcastOnFirstSession ==
  [][\A s \in Sockets :
       Announces(s) =>
         /\ Got(s, StatusEv(SocketUser[s], "online")) = 0
         /\ IF OtherSession(s)
              THEN \A r \in Sockets : Got(r, StatusEv(SocketUser[s], "online")) = 0
              ELSE \A r \in live \ {s} : Got(r, StatusEv(SocketUser[s], "online")) = 1]_vars

\* users:online events held by socket s after the step
SnapshotsHeld(s) == {ev \in BagToSet(inbox'[s]) : ev.type = "users:online"}

\* C12: the snapshot read by handleConnection is the set of identities whose
\* persisted status is online at the read; a connected session receives it in
\* one users:online event, never more than once, and it contains the
\* connecting identity.
C12_SnapshotOnConnect ==
  [][\A s \in Sockets :
       /\ (connPc[s] = "register" /\ connPc'[s] = "announce") =>
            connSnap'[s] = {u \in Users : users[u].status = "online"}
       /\ (Announces(s) /\ s \in live) =>
            /\ Got(s, SnapshotEv(connSnap[s])) = 1
            /\ SocketUser[s] \in connSnap[s]
       /\ Cardinality(SnapshotsHeld(s)) <= 1
       /\ \A ev \in SnapshotsHeld(s) : CopiesIn(ev, inbox'[s]) = 1]_vars

\* C13: every step of a message:send handler whose caller is not a
\* participant of the named conversation ends the handler with an error event
\* to the caller, persists nothing, leaves lastMessage and the unread counters
\* alone and delivers no message:new.
C13_NonParticipantSendAborted ==
  [][\A t \in Running :
       (t.kind = "sendRT" /\ t.user \notin Participants(t.conv) /\ Moves(t)) =>
         /\ UNCHANGED <<messages, conversations>>
         /\ tasks' = tasks (-) SetToBag({t})
         /\ Got(t.sock, SendError(t)) = 1
         /\ \A s \in Sockets : \A ev \in BagToSet(inbox'[s]) :
              ev.type = "message:new" => Got(s, ev) = 0]_vars

\* C14: every step of a read-mark handler (message:read, the REST endpoint,
\* the batch endpoint) whose caller is not a participant of the conversation
\* owning the message(s) ends the handler and changes no readBy, unread
\* counter or watermark.
C14_NonParticipantReadRejected ==
  [][\A t \in Running :
       Moves(t) =>
         /\ (IsMarkRead(t) /\ t.user \notin Participants(messages[t.msg].conversation)) =>
              /\ UNCHANGED <<messages, conversations>>
              /\ tasks' = tasks (-) SetToBag({t})
         /\ (t.kind = "readMany" /\ t.user \notin Participants(t.conv)) =>
              /\ UNCHANGED <<messages, conversations>>
              /\ tasks' = tasks (-) SetToBag({t})]_vars

\* C15: a message:new or conversation:updated event about conversation C is
\* delivered only to connected sessions whose identity is a participant of C.
C15_EventsOnlyToParticipants ==
  [][\A s \in Sockets : \A ev \in BagToSet(inbox'[s]) :
       (ev.type \in {"message:new", "conversation:updated"} /\ Got(s, ev) > 0) =>
         /\ s \in live
         /\ SocketUser[s] \in Participants(ev.conv)]_vars

\* handler t ends in this step without moving to a next position
Ends(t) == Moves(t) /\ tasks' = tasks (-) SetToBag({t})
BeforeFanout(t) == t.kind = "sendRT" /\ t.pc \in {"save", "addSender", "updateConv"}

\* C16: when a store write of a message:send handler fails, the handler ends
\* there: the sending session receives one error event and no other inbox
\* changes; and message:new / conversation:updated are delivered only by the
\* fan-out of a handler whose three store writes have all succeeded.
C16_FailedSendBroadcastsNothing ==
  [][/\ \A t \in Running :
          (BeforeFanout(t) /\ Ends(t)) =>
            \A s \in Sockets :
              inbox'[s] = IF s = t.sock /\ s \in live
                            THEN inbox[s] (+) SetToBag({Ev("error", "", "", {}, "Failed to send message")})
                            ELSE inbox[s]
     /\ \A s \in Sockets : \A ev \in BagToSet(inbox'[s]) :
          (ev.type \in {"message:new", "conversation:updated"} /\ Got(s, ev) > 0) =>
            \E t \in Running : /\ At(t, "sendRT", "fanout") /\ Moves(t)
                               /\ ev \in {MsgNew(t), ConvUpdated(t)}]_vars

\* C16 witness: A's send into c1 failed after the message was saved (the
\* conversation was never updated): s1 holds the error event and no session
\* holds a message:new.
C16_SendFailedAfterSave ==
  /\ tasks = EmptyBag
  /\ Len(messages) = 1 /\ messages[1].sender = "A" /\ messages[1].conversation = "c1"
  /\ conversations["c1"].lastMessage = NoMessage
  /\ CopiesIn(Ev("error", "", "", {}, "Failed to send message"), inbox["s1"]) = 1
  /\ \A s \in Sockets : \A ev \in BagToSet(inbox[s]) : ev.type # "message:new"

Rank(pc) == CASE pc = "save" -> 0 [] pc = "addSender" -> 1 [] pc = "updateConv" -> 2 [] OTHER -> 3

\* C17: of two message:send events received on one session, the later one
\* takes each of its steps (persist, register the sender, update the
\* conversation, fan out) only after the earlier one has taken that step.
C17_SessionFifo ==
  [][\A t1, t2 \in Running :
       (/\ t1.kind = "sendRT" /\ t2.kind = "sendRT"
        /\ t1.sock = t2.sock /\ t1.seq < t2.seq
        /\ Moves(t2)) => Rank(t1.pc) > Rank(t2.pc)]_vars

\* C18: the emit step of a single markRead (message:read or the REST endpoint)
\* delivers exactly one message:read naming the message, the user and the
\* message's conversation to every session joined to that conversation's room.
C18_ReadBroadcastToRoom ==
  [][\A t \in Running :
       (IsMarkRead(t) /\ t.pc = "emit" /\ Moves(t)) =>
         \A s \in RoomMembers(ConvRoom(messages[t.msg].conversation)) :
           Got(s, Ev("message:read", t.user, messages[t.msg].conversation, {t.msg}, "")) = 1]_vars

\* the requested messages that belong to conversation c and that u has not read
Wanted(ids, c, u) ==
  {m \in ids : /\ m \in MessageIds
               /\ messages[m].conversation = c
               /\ \A r \in messages[m].readBy : r.user # u}

\* C19: a batch mark-read selects exactly the requested messages of the given
\* conversation not yet read by the user; its write adds the user to readBy of
\* each selected message and leaves every other message unchanged; no other
\* step of the call touches a message; and the ids it reports in messages_read
\* are the selected ones.
C19_BatchMarksExactSubset ==
  [][\A t \in Running :
       (t.kind = "readMany" /\ Moves(t)) =>
         /\ (t.pc = "findMsgs" /\ ~Ends(t)) =>
              [t EXCEPT !.pc = "bulkWrite", !.msgs = Wanted(t.req, t.conv, t.user)]
                 \in BagToSet(tasks')
         /\ t.pc = "bulkWrite" =>
              \A m \in MessageIds :
                IF m \in t.msgs
                  THEN /\ t.user \in {r.user : r \in messages'[m].readBy}
                       /\ messages[m].readBy \subseteq messages'[m].readBy
                  ELSE messages'[m] = messages[m]
         /\ t.pc # "bulkWrite" => messages' = messages
         /\ t.pc = "emit" =>
              \A s \in RoomMembers(ConvRoom(t.conv)) :
                Got(s, Ev("messages_read", t.user, t.conv, t.msgs, "")) = 1]_vars

\* C19 witness: C asked to mark messages 1 and 2 read in c1; message 2 belongs
\* to c2.  The write is done: C is in readBy of message 1 only.
C19_MixedBatchWritten ==
  /\ \E t \in Running : /\ At(t, "readMany", "findLatest")
                        /\ t.user = "C" /\ t.conv = "c1"
                        /\ t.req = {1, 2} /\ t.msgs = {1}
  /\ messages[2].conversation = "c2"
  /\ "C" \in Readers(1)
  /\ "C" \notin Readers(2)

\* C20: a batch mark-read whose selection is empty ends at its lookup: no
\* readBy, watermark or unread counter changes and no event is emitted.
C20_EmptyBatchIsNoOp ==
  [][\A t \in Running :
       (/\ t.kind = "readMany" /\ t.pc = "findMsgs" /\ Moves(t)
        /\ Wanted(t.req, t.conv, t.user) = {}) =>
         /\ tasks' = tasks (-) SetToBag({t})
         /\ UNCHANGED <<messages, conversations, inbox>>]_vars

\* C20 witness: A, a participant of c1, asks to mark messages 1 and 2 read in
\* c1: A has read message 1 (its own) and message 2 belongs to c2; the call is
\* at its lookup.
C20_NothingToMark ==
  /\ \E t \in Running : /\ At(t, "readMany", "findMsgs")
                        /\ t.user = "A" /\ t.conv = "c1" /\ t.req = {1, 2}
  /\ "A" \in Readers(1)
  /\ messages[2].conversation = "c2"

Watermark(c, u) == conversations[c].lastReadMessage[u]

\* C21: a user's lastReadMessage watermark never moves back: when it changes
\* from one message to another, the new one was not created before the old one.
C21_WatermarkNeverMovesBack ==
  [][\A c \in Convs : \A u \in Participants(c) :
       (Watermark(c, u) # NoMessage
          /\ conversations'[c].lastReadMessage[u] # Watermark(c, u)) =>
         /\ conversations'[c].lastReadMessage[u] # NoMessage
         /\ messages[conversations'[c].lastReadMessage[u]].createdAt
              >= messages[Watermark(c, u)].createdAt]_vars

BatchEventsGot(s) ==
  {ev \in BagToSet(inbox'[s]) : ev.type = "messages_read" /\ Got(s, ev) > 0}

\* C23: the emit step of a batch mark-read delivers one messages_read event,
\* naming exactly the ids the call updated, to each session joined to the
\* conversation's room and nothing else; no other step of the call emits.
C23_OneEventPerBatch ==
  [][\A t \in Running :
       (t.kind = "readMany" /\ Moves(t)) =>
         IF t.pc = "emit"
           THEN \A s \in Sockets :
                  inbox'[s] =
                    IF s \in RoomMembers(ConvRoom(t.conv))
                      THEN inbox[s] (+) SetToBag({Ev("messages_read", t.user, t.conv, t.msgs, "")})
                      ELSE inbox[s]
           ELSE inbox' = inbox]_vars

\* C23 witness: C's batch marked messages 1 and 2 of c1; s2, joined to the
\* room of c1, holds exactly one messages_read event, naming both.
C23_TwoIdsOneEvent ==
  /\ tasks = EmptyBag
  /\ "C" \in Readers(1) /\ "C" \in Readers(2)
  /\ CopiesIn(Ev("messages_read", "C", "c1", {1, 2}, ""), inbox["s2"]) = 1
  /\ Cardinality({ev \in BagToSet(inbox["s2"]) : ev.type = "messages_read"}) = 1

\* C24: a socket whose handshake carried no cookies, no token or a bad token
\* is never connected: it is not open, the registry never names it, its
\* identity's status is untouched by the handshake, it holds no event, no
\* handler runs for it, and its disconnect handler never starts.
C24_BadHandshakeRejected ==
  [][\A s \in Sockets :
       cookie'[s] \in {"noCookies", "noToken", "badToken"} =>
         /\ s \notin live'
         /\ \A u \in Users : connectedUsers'[u] # s
         /\ inbox'[s] = EmptyBag
         /\ rooms'[s] = {}
         /\ discPc'[s] = "none"
         /\ \A t \in BagToSet(tasks') : t.sock # s
         /\ cookie[s] = NoCookie =>
              UNCHANGED <<users, connectedUsers, live, inbox, rooms, tasks>>]_vars

\* C24 witness: s3 presented a bad token and was refused, while s1 connected
\* and joined the room of c1.
C24_RefusedWhileOthersRun ==
  /\ cookie["s3"] = "badToken" /\ connPc["s3"] = "rejected"
  /\ connPc["s1"] = "done" /\ "s1" \in live
  /\ rooms["s1"] = {ConvRoom("c1")}

\* C28: a typing:start / typing:stop event changes nothing but inboxes: every
\* connected session, member of the conversation or not, receives one event
\* carrying the sender's identity and the conversation id, and no session
\* receives anything else.
C28_TypingIsTransientBroadcast ==
  [][\A s \in Sockets : \A ev \in BagToSet(inbox'[s]) :
       (ev.type \in {"typing:start", "typing:stop"} /\ Got(s, ev) > 0) =>
         /\ UNCHANGED <<users, conversations, messages, connectedUsers, live, rooms, tasks>>
         /\ \E a \in live : ev.user = SocketUser[a]
         /\ \A r \in Sockets :
              inbox'[r] = IF r \in live THEN inbox[r] (+) SetToBag({ev}) ELSE inbox[r]]_vars

\* C28 witness: B's session typed in c2, a conversation B is not a participant
\* of, and A's session s1 holds the event.
C28_TypingReachesEveryone ==
  /\ "B" \notin Participants("c2")
  /\ CopiesIn(Ev("typing:start", "B", "c2", {}, ""), inbox["s1"]) = 1
  /\ CopiesIn(Ev("typing:start", "B", "c2", {}, ""), inbox["s2"]) = 1

\* C29: memberships change one room of one connected session at a time (a
\* join or a leave) or are dropped whole when the session disconnects; no
\* other session's memberships change in that step, only connected sessions
\* belong to a broadcast group, and nothing else changes with a join or leave.
C29_RoomMembership ==
  [][\A s \in Sockets :
       /\ s \notin live' => rooms'[s] = {}
       /\ (rooms'[s] # rooms[s] /\ s \in live') =>
            /\ s \in live
            /\ \E c \in Convs : \/ rooms'[s] = rooms[s] \cup {ConvRoom(c)}
                                \/ rooms'[s] = rooms[s] \ {ConvRoom(c)}
            /\ \A r \in Sockets \ {s} : rooms'[r] = rooms[r]
            /\ UNCHANGED <<users, conversations, messages, connectedUsers, live, inbox, tasks>>]_vars

\* C29 witness: B's session s2 has joined the room of c2, a conversation B is
\* not a participant of, and left the room of c1; s1's memberships are as they
\* were.
C29_JoinedWithoutMembership ==
  /\ "B" \notin Participants("c2")
  /\ rooms["s2"] = {ConvRoom("c2")}
  /\ "s2" \in RoomMembers(ConvRoom("c2"))
  /\ rooms["s1"] = {ConvRoom("c1"), ConvRoom("c2")}

C26_ErrorToActingSessionOnly ==
  [][\A s \in Sockets : \A ev \in BagToSet(inbox'[s]) :
       (ev.type = "error" /\ Got(s, ev) > 0) =>
         /\ \E t \in Running : t.kind \in {"sendRT", "readRT"} /\ Ends(t) /\ t.sock = s
         /\ Got(s, ev) = 1
         /\ \A r \in Sockets \ {s} : inbox'[r] = inbox[r]]_vars

\* C26 witness: a message:read of B failed after its readBy write: s2 holds
\* the error and s1, joined to the same room, holds no message:read.
C26_ReadFailedQuietly ==
  /\ tasks = EmptyBag
  /\ "B" \in Readers(1)
  /\ CopiesIn(Ev("error", "", "", {}, "Failed to mark message as read"), inbox["s2"]) = 1
  /\ \A ev \in BagToSet(inbox["s1"]) : ev.type \notin {"message:read", "error"}

\* C27: the lookup step of a message:read naming an unknown message id ends
\* the handler: the caller receives one error event, nobody else receives
\* anything, and no readBy, unread counter or watermark changes.
C27_UnknownMessageRejected ==
  [][\A t \in Running :
       (At(t, "readRT", "find") /\ t.msg \notin MessageIds /\ Moves(t)) =>
         /\ Ends(t)
         /\ UNCHANGED <<messages, conversations>>
         /\ \E ev \in BagToSet(inbox'[t.sock]) :
              /\ ev.type = "error"
              /\ \A s \in Sockets :
                   inbox'[s] = IF s = t.sock /\ s \in live
                                 THEN inbox[s] (+) SetToBag({ev}) ELSE inbox[s]]_vars

\* C27 witness: B's session named message 2, which does not exist, and holds
\* the "Message not found" error; the store is as it was.
C27_NotFoundAnswered ==
  /\ tasks = EmptyBag
  /\ Len(messages) = 1
  /\ CopiesIn(Ev("error", "", "", {}, "Message not found"), inbox["s2"]) = 1
  /\ Readers(1) = {"A"}
  /\ UnreadCount("c1", "B") = 1

\* C30: whatever create, add-participants, remove-participants and leave
\* requests were served, every direct conversation has two participants
\* entries of two different users and no admins; and a create request for a
\* direct conversation whose participant list has not exactly one id is
\* answered 400 and adds no conversation.
DirectEntries(docs) ==
  \A i \in DOMAIN docs :
    docs[i].type = "direct" => Len(docs[i].participants) = 2 /\ docs[i].admins = <<>>

DirectDistinct(docs) ==
  \A i \in DOMAIN docs :
    docs[i].type = "direct" =>
      Cardinality({docs[i].participants[k].user : k \in DOMAIN docs[i].participants}) = 2

BadDirectRejected ==
  \A u \in Users, name \in NameInputs, ps \in IdLists :
    (Len(ps) # 1 /\ createConversation(u, "direct", name, ps)) =>
      /\ res'.status = 400
      /\ Conversation' = Conversation

C30_DirectHasTwoDistinctParticipants ==
  [][DirectEntries(Conversation') /\ DirectDistinct(Conversation') /\ BadDirectRejected]_vars

\* C31: add-participants, remove-participants and leave called on a direct
\* conversation are answered with an error and start no save, and no step at
\* all changes the participants, admins or member count of a direct
\* conversation.
C31_DirectIsClosed ==
  [][\A id \in DOMAIN Conversation :
       Conversation[id].type = "direct" =>
         /\ Conversation'[id] = Conversation[id]
         /\ \A u \in Users, ps \in IdLists :
              (\/ addParticipants(u, id, ps)
               \/ removeParticipants(u, id, ps)
               \/ leaveConversation(u, id)) =>
                /\ res'.status \in 400..499
                /\ tasks' = tasks]_vars

\* C31 witness: the direct conversation of A and B as created, after one of
\* them was refused the removal of the other.
C31_RemoveRefusedOnDirect ==
  /\ Len(Conversation) = 1
  /\ Conversation[1].type = "direct"
  /\ Conversation[1].participants =
       <<Participant("A", "owner"), Participant("B", "member")>>
  /\ Conversation[1].admins = <<>> /\ Conversation[1].memberCount = 2
  /\ res = [status |-> 400,
            message |-> "Cannot remove participants from direct conversation"]

\* C32: on a group, a remove-participants call of a participant that names the
\* owner, and a leave call of the owner, are answered with an authorization
\* error (401 or 403) and leave the conversation as it was, starting no save.
AuthorizationClass == {401, 403}

C32_OwnerProtected ==
  [][\A id \in DOMAIN Conversation, u \in Users :
       (Found(id, u) /\ Conversation[id].type # "direct") =>
         /\ \A ps \in IdLists :
              (OwnerNamed(Conversation[id], ps) /\ removeParticipants(u, id, ps)) =>
                /\ res'.status \in AuthorizationClass
                /\ Conversation' = Conversation /\ tasks' = tasks
         /\ (RoleOf(Conversation[id], u) = "owner" /\ leaveConversation(u, id)) =>
                /\ res'.status \in AuthorizationClass
                /\ Conversation' = Conversation /\ tasks' = tasks]_vars

\* C33: every conversation is created with exactly one owner entry, the
\* creator's, and no step of any handler, however the handlers overlap, adds,
\* removes or changes an owner entry.
Owners(doc) == SelectSeq(doc.participants, LAMBDA p : p.role = "owner")

C33_OneOwnerTheCreator ==
  [][/\ \A id \in DOMAIN Conversation : Owners(Conversation'[id]) = Owners(Conversation[id])
     /\ \A u \in Users, type \in TypeInputs, name \in NameInputs, ps \in IdLists :
          (createConversation(u, type, name, ps) /\ Len(Conversation') > Len(Conversation)) =>
            Owners(Conversation'[Len(Conversation')]) = <<Participant(u, "owner")>>]_vars

\* C33 witness: a group of owner A in which a save was applied while another
\* handler, which loaded the conversation before that save, is still to save.
C33_StaleHandlerInFlight ==
  /\ Len(Conversation) = 1 /\ Conversation[1].type = "group"
  /\ Owners(Conversation[1]) = <<Participant("A", "owner")>>
  /\ \E t \in Running :
       /\ t.kind \in {"add", "remove", "leave"}
       /\ t.snap.loaded # Conversation[t.conv]

\* C34: a message never holds two reactions of one user, and the save of an
\* add-reaction call leaves that user's reaction with the call's emoji.
OneReactionPerUser(msgs) ==
  \A m \in DOMAIN msgs : \A u \in Users :
    Cardinality(ReactionsOf(msgs[m].reactions, u)) <= 1

C34_OneReactionPerUser ==
  [][/\ OneReactionPerUser(messages')
     /\ \A t \in Running :
          (At(t, "addReaction", "save") /\ Moves(t) /\ messages' # messages) =>
            \A i \in ReactionsOf(messages'[t.msg].reactions, t.user) :
              messages'[t.msg].reactions[i].emoji = t.req]_vars

\* C35: once the connect and disconnect handlers have finished, an identity's
\* persisted status is online iff the registry entry of that identity names a
\* connected session of that identity.
C35_StatusMatchesRegistry ==
  HandlersIdle =>
    \A u \in Users :
      (users[u].status = "online") <=>
        /\ connectedUsers[u] # NoSocket
        /\ connectedUsers[u] \in live
        /\ SocketUser[connectedUsers[u]] = u

\* C36: once every send has finished, the lastMessage of a conversation is a
\* message of it that was created no earlier than any other message of it.
C36_LastMessageIsNewest ==
  tasks = EmptyBag =>
    \A m \in MessageIds :
      LET last == conversations[messages[m].conversation].lastMessage
      IN  /\ last # NoMessage
          /\ messages[last].conversation = messages[m].conversation
          /\ messages[last].createdAt >= messages[m].createdAt

\* C37: a message:read whose conversationId is not the conversation of the
\* marked message changes no unread counter of the conversation it names and
\* delivers no message:read event to the sessions in that conversation's room.
C37_ReadStaysInOwnConversation ==
  [][\A t \in Running :
       (/\ t.kind = "readRT" /\ Moves(t)
        /\ t.msg \in MessageIds
        /\ messages[t.msg].conversation # t.conv) =>
         /\ conversations'[t.conv].unreadCount = conversations[t.conv].unreadCount
         /\ \A s \in RoomMembers(ConvRoom(t.conv)) : Got(s, MsgRead(t)) = 0]_vars

\* C38: once every delete has finished, the lastMessage of a conversation is
\* unset or is one of its non-deleted messages, created no earlier than any
\* other non-deleted message of it.
C38_LastMessageNotDeleted ==
  tasks = EmptyBag =>
    \A c \in Convs :
      LET last == conversations[c].lastMessage
      IN  IF Kept(c) = {} THEN last = NoMessage ELSE last \in Latest(Kept(c))

\* C39: every stored message belongs to an existing conversation: no step of
\* a message:send that names an unknown conversation stores a message or
\* delivers message:new to anyone.
C39_MessagesReferenceConversations ==
  [][/\ \A m \in DOMAIN messages' : messages'[m].conversation \in Convs
     /\ \A t \in Running :
          (t.kind = "sendRT" /\ t.conv \notin Convs /\ Moves(t)) =>
            /\ messages' = messages
            /\ \A s \in Sockets : Got(s, MsgNew(t)) = 0]_vars

====
